---- MODULE Spec2Model ----
(***************************************************************************)
(* Luzifer/go-metar: FetchCurrentStationWeather (metar.go) and the unit    *)
(* conversion helpers (helpers.go).                                        *)
(*                                                                         *)
(* Spec        : sequences of FetchCurrentStationWeather calls against an  *)
(*               HTTP client and an upstream document chosen by the        *)
(*               environment.                                              *)
(* SpecHelpers : calls of the five conversion helpers on bounded inputs.   *)
(*                                                                         *)
(* Go values are represented as follows.  A pointer is a sequence of       *)
(* length 0 (nil) or 1.  An error is a string, "nil" for no error.  A      *)
(* float64 is a decimal fixed-point number: helper arguments are counted   *)
(* in tenths, helper results in units of 10^-11, split in two limbs so     *)
(* that every intermediate value fits TLC's integers.                      *)
(***************************************************************************)
EXTENDS Integers, Sequences, FiniteSets, TLC

\* ------------------------------------------------------------------ bounds
MaxCalls == 2
MaxStationLen == 2
MaxChildren == 2
MaxN == 2
MaxKts == 66
MaxNegKts == 2

\* ------------------------------------------------- station and request URL
\* Characters a station string is built from: a letter that is also a hex
\* digit, the fragment separator, the escape character, a control byte.
StationChars == {"E", "#", "%", "\n"}

Stations == UNION {[1..n -> StationChars] : n \in 0..MaxStationLen}

\* fmt.Sprintf(apiSource, station): the template up to %s, the station, the
\* rest of the template.
ApiPrefix == "https://www.aviationweather.gov/adds/dataserver_current/httpparam?dataSource=metars&requestType=retrieve&format=xml&stationString="
ApiSuffix == "&hoursBeforeNow=2&mostRecent=true"

Sprintf(station) == <<ApiPrefix>> \o station \o <<ApiSuffix>>

IsCTL(c) == c = "\n"
IsHex(c) == c = "E"

\* net/url.Parse as used by http.NewRequest: a URL holding a control byte is
\* rejected; what follows the first '#' is the fragment, and a '%' in it
\* that is not followed by two hex digits is rejected.  The query itself is
\* not validated.
HashAt(u) == {i \in 1..Len(u) : u[i] = "#"}

FirstHash(u) == CHOOSE i \in HashAt(u) : \A j \in HashAt(u) : i <= j

Fragment(u) == IF HashAt(u) = {} THEN <<>> ELSE SubSeq(u, FirstHash(u) + 1, Len(u))

BadEscape(f) ==
    \E i \in 1..Len(f) :
        /\ f[i] = "%"
        /\ ~(i + 2 <= Len(f) /\ IsHex(f[i + 1]) /\ IsHex(f[i + 2]))

URLParseFails(u) == (\E i \in 1..Len(u) : IsCTL(u[i])) \/ BadEscape(Fragment(u))

\* req, _ := http.NewRequest("GET", url, nil): nil when the URL does not
\* parse; the error is discarded.
NewRequest(url) == IF URLParseFails(url) THEN <<>> ELSE <<[Method |-> "GET", URL |-> url]>>

\* --------------------------------------------------------- upstream documents
\* The text content of one child element of <data>.
WireObs ==
    { [station_id |-> "EDDH", latitude |-> 5363, metar_type |-> "METAR", taf |-> "x"],
      [station_id |-> "EDDL", latitude |-> 5128, metar_type |-> "SPECI", taf |-> "y"] }

DefaultWire == [station_id |-> "EDDH", latitude |-> 5363, metar_type |-> "METAR", taf |-> "x"]

\* A child of <data>: its tag, whether its field texts parse (a latitude
\* that is not a number, a time that is not RFC 3339), and its fields.
Children ==
    { [tag |-> t, parses |-> TRUE, fields |-> w] : t \in {"METAR", "note"}, w \in WireObs }
    \cup { [tag |-> t, parses |-> FALSE, fields |-> DefaultWire] : t \in {"METAR", "note"} }

ChildSeqs == UNION {[1..n -> Children] : n \in 0..MaxChildren}

\* The num_results attribute: absent, present but not a number, or a number.
NumAttrs ==
    { [present |-> FALSE, numeric |-> FALSE, value |-> 0],
      [present |-> TRUE, numeric |-> FALSE, value |-> 0] }
    \cup { [present |-> TRUE, numeric |-> TRUE, value |-> v] : v \in 0..MaxN }

\* A body that is not XML at all (or is cut short).
Malformed ==
    [wf |-> FALSE, root |-> "response",
     num |-> [present |-> FALSE, numeric |-> FALSE, value |-> 0], children |-> <<>>]

Docs ==
    {Malformed}
    \cup { [wf |-> TRUE, root |-> rt, num |-> a, children |-> cs] :
             rt \in {"response", "html"}, a \in NumAttrs, cs \in ChildSeqs }

\* Errors the transport can return from Do.
TransportErrors == {"dial tcp: connection refused", "context deadline exceeded"}

ErrInconsistent == "Got inconsistent number of results"
ErrNoData == "Did not find any data for your station"

\* The zero value of response.
EmptyResponse == [NumResults |-> 0, Results |-> <<>>]

\* --------------------------------------------------------------- decoding
\* One <METAR> element decoded into a Result through the struct tags; an
\* element the struct has no tag for (taf) is dropped.
DecodeResult(w) ==
    [StationID |-> w.station_id, Latitude |-> w.latitude, MetarType |-> w.metar_type]

\* Results []Result `xml:"METAR"`: the METAR children in document order,
\* other children skipped.
RECURSIVE DecodeResults(_)
DecodeResults(cs) ==
    IF cs = <<>> THEN <<>>
    ELSE IF Head(cs).tag = "METAR"
         THEN <<DecodeResult(Head(cs).fields)>> \o DecodeResults(Tail(cs))
         ELSE DecodeResults(Tail(cs))

\* Decode as it would be if a METAR field that does not parse were skipped
\* instead of failing the decode.
DecodeErrorLenient(doc) ==
    IF ~doc.wf THEN "XML syntax error"
    ELSE IF doc.root # "response" THEN "expected element type <response>"
    ELSE IF doc.num.present /\ ~doc.num.numeric THEN "strconv.ParseInt: invalid syntax"
    ELSE "nil"

\* xml.NewDecoder(res.Body).Decode(r): the error, "nil" when there is none.
DecodeError(doc) ==
    IF ~doc.wf THEN "XML syntax error"
    ELSE IF doc.root # "response" THEN "expected element type <response>"
    ELSE IF doc.num.present /\ ~doc.num.numeric THEN "strconv.ParseInt: invalid syntax"
    ELSE IF \E i \in 1..Len(doc.children) :
                doc.children[i].tag = "METAR" /\ ~doc.children[i].parses
         THEN "strconv.ParseFloat: invalid syntax"
    ELSE "nil"

\* The response struct Decode leaves in r when it succeeds.
Decode(doc) ==
    [NumResults |-> IF doc.num.present THEN doc.num.value ELSE 0,
     Results |-> DecodeResults(doc.children)]


\* ------------------------------------------------------ conversion helpers
\* Helper arguments, in tenths: every whole number of knots (or inches,
\* miles, millibars) of the range and the values .1, .5 and .9 above it.
Inputs == {10 * k + d : k \in (0 - MaxNegKts)..MaxKts, d \in {0, 1, 5, 9}}

\* Fixed-point numbers of two limbs, value hi * Base + lo with 0 <= lo < Base.
Base == 1000 * 1000

Zero == [hi |-> 0, lo |-> 0]

\* The factors of helpers.go in units of 10^-10.
InHgFactor == [hi |-> 338638, lo |-> 866667]
KtsFactor == [hi |-> 5144, lo |-> 440000]
StatMileFactor == [hi |-> 16093, lo |-> 400000]
MbFactor == [hi |-> 1000, lo |-> 0]

\* x * f for an argument x in tenths and a factor f: units of 10^-11.
Mul(x, f) ==
    LET p == x * f.lo
    IN  [hi |-> x * f.hi + (p \div Base), lo |-> p % Base]

InHgTohPa(inHg) == Mul(inHg, InHgFactor)

KtsToMs(kts) == Mul(kts, KtsFactor)

StatMileToKm(sm) == Mul(sm, StatMileFactor)

\* Millibars taken for hectopascals one to one.
MbTohPaIdentity(mb) == Mul(mb, [hi |-> 10000, lo |-> 0])

MbTohPa(mb) == Mul(mb, MbFactor)

\* The switch with <= for <: a threshold falls in the lower band.
KtsToBftInclusive(kts) ==
    IF kts <= 10 THEN 0
    ELSE IF kts <= 40 THEN 1
    ELSE IF kts <= 70 THEN 2
    ELSE IF kts <= 110 THEN 3
    ELSE IF kts <= 160 THEN 4
    ELSE IF kts <= 220 THEN 5
    ELSE IF kts <= 280 THEN 6
    ELSE IF kts <= 340 THEN 7
    ELSE IF kts <= 410 THEN 8
    ELSE IF kts <= 480 THEN 9
    ELSE IF kts <= 560 THEN 10
    ELSE IF kts <= 640 THEN 11
    ELSE 12

\* The switch of KtsToBft; kts in tenths of a knot.
KtsToBft(kts) ==
    IF kts < 10 THEN 0
    ELSE IF kts < 40 THEN 1
    ELSE IF kts < 70 THEN 2
    ELSE IF kts < 110 THEN 3
    ELSE IF kts < 160 THEN 4
    ELSE IF kts < 220 THEN 5
    ELSE IF kts < 280 THEN 6
    ELSE IF kts < 340 THEN 7
    ELSE IF kts < 410 THEN 8
    ELSE IF kts < 480 THEN 9
    ELSE IF kts < 560 THEN 10
    ELSE IF kts < 640 THEN 11
    ELSE 12

\* ------------------------------------------------------------------ state
VARIABLES
    pc,          \* where the current call is: idle, do, decode, validate, returned, panicked
    station,     \* argument of the current call
    req,         \* req of metar.go:89, nil or one request
    res,         \* body of the response Do returned, nil or one document
    doErr,       \* err as Do returned it
    r,           \* the response struct of metar.go:95
    result,      \* returned *Result
    err,         \* returned error
    calls,       \* calls of FetchCurrentStationWeather started
    requests,    \* requests the HTTP client executed
    openBodies,  \* response bodies handed out by the client and not closed
    decoded,     \* the current call ran the XML decoder
    checked,     \* the current call reached the count checks
    fn,          \* helper called last
    arg,         \* its argument, in tenths
    out,         \* its float64 result, in units of 10^-11
    bft          \* its int result

fetchVars == <<pc, station, req, res, doErr, r, result, err, calls, requests,
               openBodies, decoded, checked>>

helperVars == <<fn, arg, out, bft>>

vars == <<pc, station, req, res, doErr, r, result, err, calls, requests,
          openBodies, decoded, checked, fn, arg, out, bft>>

InitFetch ==
    /\ pc = "idle"
    /\ station = <<>>
    /\ req = <<>>
    /\ res = <<>>
    /\ doErr = "nil"
    /\ r = EmptyResponse
    /\ result = <<>>
    /\ err = "nil"
    /\ calls = 0
    /\ requests = 0
    /\ openBodies = 0
    /\ decoded = FALSE
    /\ checked = FALSE

InitHelpers ==
    /\ fn = "none"
    /\ arg = 0
    /\ out = Zero
    /\ bft = 0

Init == InitFetch /\ InitHelpers

\* -------------------------------------------- FetchCurrentStationWeather
\* The transport error replaced by an error of the package's own.
TransportReturnWrapped(e) == [result |-> <<>>, err |-> "metar: request failed"]

\* return nil, err after a failed Do.
TransportReturn(e) == [result |-> <<>>, err |-> e]

\* return nil, err after a failed Decode.
DecodeReturn(e) == [result |-> <<>>, err |-> e]

\* The last result returned instead of the first.
ValidateLast(rr) ==
    IF rr.NumResults # Len(rr.Results) THEN [result |-> <<>>, err |-> ErrInconsistent]
    ELSE IF rr.NumResults = 0 THEN [result |-> <<>>, err |-> ErrNoData]
    ELSE [result |-> <<rr.Results[Len(rr.Results)]>>, err |-> "nil"]

\* The empty check run before the count check.
ValidateEmptyFirst(rr) ==
    IF rr.NumResults = 0 THEN [result |-> <<>>, err |-> ErrNoData]
    ELSE IF rr.NumResults # Len(rr.Results) THEN [result |-> <<>>, err |-> ErrInconsistent]
    ELSE [result |-> <<rr.Results[1]>>, err |-> "nil"]

\* The empty check reporting the message of the count check.
ValidateWrongMessage(rr) ==
    IF rr.NumResults # Len(rr.Results) THEN [result |-> <<>>, err |-> ErrInconsistent]
    ELSE IF rr.NumResults = 0 THEN [result |-> <<>>, err |-> ErrInconsistent]
    ELSE [result |-> <<rr.Results[1]>>, err |-> "nil"]

\* The two checks and the final return.
Validate(rr) ==
    IF rr.NumResults # Len(rr.Results) THEN [result |-> <<>>, err |-> ErrInconsistent]
    ELSE IF rr.NumResults = 0 THEN [result |-> <<>>, err |-> ErrNoData]
    ELSE [result |-> <<rr.Results[1]>>, err |-> "nil"]

\* A caller enters the function; the request is built from the template.
Call(st) ==
    /\ pc \in {"idle", "returned"}
    /\ calls < MaxCalls
    /\ calls' = calls + 1
    /\ station' = st
    /\ req' = NewRequest(Sprintf(st))
    /\ res' = <<>>
    /\ doErr' = "nil"
    /\ r' = EmptyResponse
    /\ result' = <<>>
    /\ err' = "nil"
    /\ decoded' = FALSE
    /\ checked' = FALSE
    /\ pc' = "do"
    /\ UNCHANGED <<requests, openBodies>>
    /\ UNCHANGED helperVars

\* HTTPClient.Do(req) with req = nil: (*http.Client).Do reads req.URL and
\* the goroutine panics with a nil pointer dereference.
DoPanic ==
    /\ pc = "do"
    /\ req = <<>>
    /\ pc' = "panicked"
    /\ UNCHANGED <<station, req, res, doErr, r, result, err, calls, requests,
                   openBodies, decoded, checked>>
    /\ UNCHANGED helperVars

\* A failed Do tried once more before the error is returned.
DoErrorRetry ==
    /\ pc = "do"
    /\ req # <<>>
    /\ requests' = requests + 1
    /\ IF requests < calls
       THEN /\ pc' = "do"
            /\ UNCHANGED <<doErr, result, err>>
       ELSE /\ \E e \in TransportErrors :
                /\ doErr' = e
                /\ result' = <<>>
                /\ err' = e
            /\ pc' = "returned"
    /\ UNCHANGED <<station, req, res, r, calls, openBodies, decoded, checked>>
    /\ UNCHANGED helperVars

\* HTTPClient.Do(req) fails: the function returns nil and the error.
DoError ==
    /\ pc = "do"
    /\ req # <<>>
    /\ \E e \in TransportErrors :
        /\ doErr' = e
        /\ result' = TransportReturn(e).result
        /\ err' = TransportReturn(e).err
    /\ requests' = requests + 1
    /\ pc' = "returned"
    /\ UNCHANGED <<station, req, res, r, calls, openBodies, decoded, checked>>
    /\ UNCHANGED helperVars

\* HTTPClient.Do(req) answers with a response whose body is open.
DoResponse ==
    /\ pc = "do"
    /\ req # <<>>
    /\ \E d \in Docs : res' = <<d>>
    /\ doErr' = "nil"
    /\ requests' = requests + 1
    /\ openBodies' = openBodies + 1
    /\ pc' = "decode"
    /\ UNCHANGED <<station, req, r, result, err, calls, decoded, checked>>
    /\ UNCHANGED helperVars

\* The body is decoded into r; a decoder error is returned.
DecodeStep ==
    /\ pc = "decode"
    /\ decoded' = TRUE
    /\ IF DecodeError(res[1]) # "nil"
       THEN /\ result' = DecodeReturn(DecodeError(res[1])).result
            /\ err' = DecodeReturn(DecodeError(res[1])).err
            /\ pc' = "returned"
            /\ UNCHANGED r
       ELSE /\ r' = Decode(res[1])
            /\ pc' = "validate"
            /\ UNCHANGED <<result, err>>
    /\ UNCHANGED <<station, req, res, doErr, calls, requests, openBodies, checked>>
    /\ UNCHANGED helperVars

\* The count check, the empty check, the return of the first result.
ValidateStep ==
    /\ pc = "validate"
    /\ checked' = TRUE
    /\ result' = Validate(r).result
    /\ err' = Validate(r).err
    /\ pc' = "returned"
    /\ UNCHANGED <<station, req, res, doErr, r, calls, requests, openBodies, decoded>>
    /\ UNCHANGED helperVars

Next ==
    \/ \E st \in Stations : Call(st)
    \/ DoPanic
    \/ DoError
    \/ DoResponse
    \/ DecodeStep
    \/ ValidateStep

Spec == Init /\ [][Next]_vars

\* ------------------------------------------------------- helper calls
CallInHgTohPa(x) ==
    /\ fn' = "InHgTohPa"
    /\ arg' = x
    /\ out' = InHgTohPa(x)
    /\ bft' = 0
    /\ UNCHANGED fetchVars

CallKtsToMs(x) ==
    /\ fn' = "KtsToMs"
    /\ arg' = x
    /\ out' = KtsToMs(x)
    /\ bft' = 0
    /\ UNCHANGED fetchVars

CallStatMileToKm(x) ==
    /\ fn' = "StatMileToKm"
    /\ arg' = x
    /\ out' = StatMileToKm(x)
    /\ bft' = 0
    /\ UNCHANGED fetchVars

CallMbTohPa(x) ==
    /\ fn' = "MbTohPa"
    /\ arg' = x
    /\ out' = MbTohPa(x)
    /\ bft' = 0
    /\ UNCHANGED fetchVars

CallKtsToBft(x) ==
    /\ fn' = "KtsToBft"
    /\ arg' = x
    /\ bft' = KtsToBft(x)
    /\ out' = Zero
    /\ UNCHANGED fetchVars

NextHelpers ==
    \/ \E x \in Inputs : CallInHgTohPa(x)
    \/ \E x \in Inputs : CallKtsToMs(x)
    \/ \E x \in Inputs : CallStatMileToKm(x)
    \/ \E x \in Inputs : CallMbTohPa(x)
    \/ \E x \in Inputs : CallKtsToBft(x)

SpecHelpers == Init /\ [][NextHelpers]_vars

\* ================================================================ properties
\* The call has returned to its caller.
Returned == pc = "returned"

\* The call received a body and the decoder accepted it: r is the decoded
\* envelope.
Enveloped == Returned /\ res # <<>> /\ DecodeError(res[1]) = "nil"

\* The <METAR> children of a document, in document order.
MetarChildren(doc) == SelectSeq(doc.children, LAMBDA c : c.tag = "METAR")

\* C1: when the declared count equals the number n of decoded observations
\* and n >= 1, the call returns a nil error and the first observation in
\* document order, every field as decoded.
C1_FirstResultReturned ==
    (Enveloped /\ r.NumResults = Len(r.Results) /\ Len(r.Results) >= 1)
        => /\ err = "nil"
           /\ result = <<r.Results[1]>>
           /\ result[1].StationID = MetarChildren(res[1])[1].fields.station_id
           /\ result[1].Latitude = MetarChildren(res[1])[1].fields.latitude
           /\ result[1].MetarType = MetarChildren(res[1])[1].fields.metar_type

C1_Witness ==
    /\ Enveloped
    /\ r.NumResults = 2
    /\ Len(r.Results) = 2
    /\ r.Results[1] # r.Results[2]
    /\ result = <<r.Results[1]>>

\* C2: when the declared count differs from the number of decoded
\* observations, the call returns a nil result and the Inconsistent-Count
\* error, whether or not the sequence is empty.
C2_InconsistentCount ==
    (Enveloped /\ r.NumResults # Len(r.Results))
        => result = <<>> /\ err = ErrInconsistent

C2_Witness ==
    /\ Enveloped
    /\ r.NumResults = 0
    /\ Len(r.Results) = 1
    /\ err = ErrInconsistent

\* C3: declared count 0 and no decoded observation give a nil result and
\* the No-Data error, and the No-Data error is returned in no other case.
C3_NoDataExactly ==
    Returned =>
        /\ (err = ErrNoData) <=> (Enveloped /\ r.NumResults = 0 /\ Len(r.Results) = 0)
        /\ (err = ErrNoData) => result = <<>>

C3_Witness ==
    /\ Enveloped
    /\ r.NumResults = 0
    /\ Len(r.Results) = 0
    /\ err = ErrNoData

\* C4: when the client returns an error, the call returns a nil result and
\* that same error, and decodes and validates nothing.
C4_TransportErrorPropagated ==
    (Returned /\ doErr # "nil")
        => /\ result = <<>>
           /\ err = doErr
           /\ res = <<>>
           /\ ~decoded
           /\ ~checked

C4_Witness ==
    /\ Returned
    /\ doErr = "context deadline exceeded"
    /\ err = "context deadline exceeded"

\* The body is not the expected document: not XML, another root element, a
\* num_results that is not a number, or a METAR with a field that does not
\* parse.
Undecodable(doc) ==
    \/ ~doc.wf
    \/ doc.root # "response"
    \/ (doc.num.present /\ ~doc.num.numeric)
    \/ \E i \in 1..Len(doc.children) :
          doc.children[i].tag = "METAR" /\ ~doc.children[i].parses

\* C5: when the body cannot be decoded, the call returns a nil result and
\* the decoder's error, and neither count check is reached.
C5_DecodeErrorPropagated ==
    (Returned /\ res # <<>> /\ Undecodable(res[1]))
        => /\ result = <<>>
           /\ err \notin {"nil", ErrInconsistent, ErrNoData}
           /\ err \notin TransportErrors
           /\ ~checked
           /\ r = EmptyResponse

C5_Witness ==
    /\ Returned
    /\ res # <<>>
    /\ res[1].wf
    /\ res[1].root = "response"
    /\ res[1].num.numeric
    /\ res[1].num.value = 1
    /\ Len(res[1].children) = 1
    /\ res[1].children[1].tag = "METAR"
    /\ ~res[1].children[1].parses
    /\ err = "strconv.ParseFloat: invalid syntax"

\* C6: every call that has returned has had exactly one request executed
\* by the client, on every path, and no request is executed between a
\* return and the next call.
C6_OneRequestPerCall ==
    /\ [](Returned => requests = calls)
    /\ [](pc \in {"decode", "validate"} => requests = calls)
    /\ [][(pc \in {"idle", "returned"}) => (requests' = requests)]_vars

C6_Witness ==
    /\ Returned
    /\ calls = 2
    /\ requests = 2
    /\ err \in TransportErrors

\* C7: KtsToBft(k) is the number of thresholds not above k; a threshold
\* belongs to the higher band, a negative k gives 0, the function is
\* monotonic and its image is 0..12.
BftThresholds == {1, 4, 7, 11, 16, 22, 28, 34, 41, 48, 56, 64}

C7_BeaufortBands ==
    fn = "KtsToBft" =>
        /\ bft = Cardinality({t \in BftThresholds : 10 * t <= arg})
        /\ (arg < 0 => bft = 0)
        /\ (arg = 640 => bft = 12)
        /\ (arg = 639 => bft = 11)
        /\ (arg = 50 => bft = 2)
        /\ (arg = 5 => bft = 0)
        /\ \A k \in Inputs : (k <= arg => KtsToBft(k) <= bft)
        /\ bft \in 0..12
        /\ \A b \in 0..12 : \E k \in Inputs : KtsToBft(k) = b

C7_Witness == fn = "KtsToBft" /\ arg = 640 /\ bft = 12

\* Sum and difference of two fixed-point numbers.
Norm(h, l) == [hi |-> h + (l \div Base), lo |-> l % Base]

Plus(a, b) == Norm(a.hi + b.hi, a.lo + b.lo)

Minus(a, b) == Norm(a.hi - b.hi, a.lo - b.lo)

\* n times f by additions only: twice the half, plus f when n is odd.
RECURSIVE Times(_, _)
Times(n, f) ==
    IF n = 0 THEN Zero
    ELSE IF n < 0 THEN Minus(Zero, Times(0 - n, f))
    ELSE LET h == Times(n \div 2, f)
         IN  IF n % 2 = 1 THEN Plus(Plus(h, h), f) ELSE Plus(h, h)

\* C8: each conversion returns its argument times its factor: 33.8638866667,
\* 0.1, 0.514444, 1.60934; 1 goes to the factor and 0 to 0.
C8_ConversionFactors ==
    /\ fn = "InHgTohPa" =>
        /\ out = Times(arg, [hi |-> 338638, lo |-> 866667])
        /\ (arg = 10 => out = [hi |-> 3386388, lo |-> 666670])
        /\ (arg = 0 => out = Zero)
    /\ fn = "MbTohPa" =>
        /\ out = Times(arg, [hi |-> 1000, lo |-> 0])
        /\ (arg = 10 => out = [hi |-> 10000, lo |-> 0])
        /\ (arg = 0 => out = Zero)
    /\ fn = "KtsToMs" =>
        /\ out = Times(arg, [hi |-> 5144, lo |-> 440000])
        /\ (arg = 10 => out = [hi |-> 51444, lo |-> 400000])
        /\ (arg = 0 => out = Zero)
    /\ fn = "StatMileToKm" =>
        /\ out = Times(arg, [hi |-> 16093, lo |-> 400000])
        /\ (arg = 10 => out = [hi |-> 160934, lo |-> 0])
        /\ (arg = 0 => out = Zero)

C8_Witness == fn = "InHgTohPa" /\ arg = 10 /\ out = [hi |-> 3386388, lo |-> 666670]

\* C9: for every station string the call hands a request for that station
\* to the client and returns; no station makes it abort.
C9_EveryStationReturns ==
    /\ pc # "panicked"
    /\ pc \in {"decode", "validate", "returned"}
          => req = <<[Method |-> "GET", URL |-> Sprintf(station)]>>

\* C10: once a call has returned, every response body the client handed
\* out has been closed.
C10_BodiesClosed == pc \in {"idle", "returned"} => openBodies = 0
====
